---- MODULE Spec2Model ----
(***************************************************************************)
(* Model of the client-side data store useNBAStore (zustand): the player,  *)
(* team and prediction caches, the in-flight guards, and the asynchronous  *)
(* operations that suspend at one network request and resume when that     *)
(* request resolves.  Every await of the source is a request record in     *)
(* `inflight`; the code before the await is the Call action, the code      *)
(* after it the Ok / Fail action of that request.                          *)
(***************************************************************************)
EXTENDS Integers, Sequences, FiniteSets, Bags, TLC

VARIABLES
    players,              \* NBAState.players            : Player[]
    teams,                \* NBAState.teams              : Team[]
    loading,              \* NBAState.loading            : boolean
    error,                \* NBAState.error              : <<>> is null, <<m>> a message
    injuryPredictions,    \* NBAState.injuryPredictions  : Map, as its entry list <<key, value>>
    fetchingInfo,         \* NBAState.fetchingInfo       : Set<number>
    teamsFetching,        \* NBAState.teamsFetching      : boolean
    predictionsBatching,  \* NBAState.predictionsBatching: boolean
    prefetchRef,          \* Dashboard's prefetchRef.current
    inflight,             \* bag of the store operations' requests awaiting their response, each with the locals of its call
    profileInflight,      \* bag of PlayerProfile's own info requests awaiting their response, each with the player object its effect holds
    callCount,            \* number of calls that have issued a request
    rejected,             \* some call of a store operation ended with its promise rejected
    lastOp                \* the last step: its action, how many requests it issued, whether it erased a recorded error, whether it resolved a superseded player load

storeVars == <<players, teams, loading, error, injuryPredictions,
               fetchingInfo, teamsFetching, predictionsBatching>>

vars == <<players, teams, loading, error, injuryPredictions, fetchingInfo,
          teamsFetching, predictionsBatching, prefetchRef, inflight,
          profileInflight, callCount, rejected, lastOp>>

---------------------------------------------------------------------------
(* Bounds of the model *)

MaxCalls == 3

---------------------------------------------------------------------------
(* Data the server may answer with *)

PlayerIds == {1, 2}

TeamIds == {10, 20}

DefaultTemperature == 72

DefaultHumidity == 50

P1 == [id |-> 1, weight_pounds |-> 200]

P1Full == [id |-> 1, height_feet |-> 6, weight_pounds |-> 210]

P2 == [id |-> 2, height_feet |-> 7]

PlayerPayloads == { <<>>, <<P1>>, <<P1Full, P2>> }

T10 == [id |-> 10, abbreviation |-> "BOS"]

T20 == [id |-> 20, abbreviation |-> "LAL"]

TeamPayloads == { <<>>, <<T10>>, <<T10, T20>> }

InfoPayloads == { [height_feet |-> 6],
                  [height_feet |-> 7, weight_pounds |-> 230] }

ErrorMessages == { "Network Error", "timeout of 10000ms exceeded" }

\* a /predict_injury response body that carries the environmental factors
PredFull(i) ==
    [player_id |-> i, injury_risk |-> 73, risk_level |-> "High",
     contributing_factors |-> [environmental |-> [temperature |-> 80, humidity |-> 60]],
     timestamp |-> "t1"]

\* a /predict_injury response body without contributing_factors
PredBare(i) ==
    [player_id |-> i, injury_risk |-> 20, risk_level |-> "Low", timestamp |-> "t2"]

\* res.data of /predict_injury: an object, or null
PredictPayloads ==
    { [kind |-> "object", body |-> b] : b \in { PredFull(i) : i \in PlayerIds }
                                          \cup { PredBare(i) : i \in PlayerIds } }
    \cup { [kind |-> "null"] }

\* res.data of /predict_injury/bulk: an object { [id]: prediction }, or null
BulkPayloads ==
    { [kind |-> "object", body |-> (1 :> PredFull(1))],
      [kind |-> "object", body |-> (1 :> PredBare(1) @@ 2 :> PredFull(2))],
      [kind |-> "object", body |-> (1 :> PredBare(2) @@ 2 :> PredFull(2))],
      [kind |-> "null"] }

\* the optional arguments (temperature, humidity) a caller of predictInjury passes
OptionalArgs == { <<>>, <<90, 30>> }

---------------------------------------------------------------------------
(* Pure helpers: the JavaScript operations the store uses *)

\* { ...p, ...data }
Spread(p, data) ==
    [f \in DOMAIN p \cup DOMAIN data |-> IF f \in DOMAIN data THEN data[f] ELSE p[f]]

\* array.find(x => x.id === id) is not undefined
Found(s, id) == \E i \in 1..Len(s) : s[i].id = id

\* Map.prototype.has
MapHas(m, k) == \E i \in 1..Len(m) : m[i][1] = k

\* Map.prototype.get, for a key the map has
MapGet(m, k) == m[CHOOSE i \in 1..Len(m) : m[i][1] = k][2]

\* Map.set as a list push: a second entry for a key the map already has
MapSetAppend(m, k, v) == Append(m, <<k, v>>)

\* Map.prototype.set: replaces the value of an existing key in place, else appends
MapSet(m, k, v) ==
    IF MapHas(m, k)
    THEN [i \in 1..Len(m) |-> IF m[i][1] = k THEN <<k, v>> ELSE m[i]]
    ELSE Append(m, <<k, v>>)

\* Object.values(obj) of an object with integer keys: ascending key order
RECURSIVE ObjectValues(_)
ObjectValues(obj) ==
    IF DOMAIN obj = {} THEN <<>>
    ELSE LET k == CHOOSE x \in DOMAIN obj : \A y \in DOMAIN obj : x <= y
         IN  <<obj[k]>> \o ObjectValues([y \in DOMAIN obj \ {k} |-> obj[y]])

\* data.contributing_factors?.environmental?.[f] ?? dflt
EnvOr(data, f, dflt) ==
    IF /\ "contributing_factors" \in DOMAIN data
       /\ "environmental" \in DOMAIN data.contributing_factors
       /\ f \in DOMAIN data.contributing_factors.environmental
    THEN data.contributing_factors.environmental[f]
    ELSE dflt

\* the default parameter values of predictInjury
Temperature(args) == IF Len(args) >= 1 THEN args[1] ELSE DefaultTemperature

Humidity(args) == IF Len(args) >= 2 THEN args[2] ELSE DefaultHumidity

\* the normalization taking the factors from the request inputs only
NormalizeInputsOnly(data, temperature, humidity) ==
    [player_id   |-> data.player_id,
     injury_risk |-> data.injury_risk,
     risk_level  |-> data.risk_level,
     factors     |-> [temperature |-> temperature,
                      humidity    |-> humidity,
                      timestamp   |-> data.timestamp]]

\* "Normalize backend shape to InjuryPrediction"
Normalize(data, temperature, humidity) ==
    [player_id   |-> data.player_id,
     injury_risk |-> data.injury_risk,
     risk_level  |-> data.risk_level,
     factors     |-> [temperature |-> EnvOr(data, "temperature", temperature),
                      humidity    |-> EnvOr(data, "humidity", humidity),
                      timestamp   |-> data.timestamp]]

\* Object.values(data).forEach(pred => newMap.set(pred.player_id, pred))
RECURSIVE MergeAll(_, _)
MergeAll(m, preds) ==
    IF preds = <<>> THEN m
    ELSE MergeAll(MapSet(m, Head(preds).player_id, Head(preds)), Tail(preds))

\* s.players.map(p => p.id)
IdsOf(ps) == [i \in 1..Len(ps) |-> ps[i].id]

---------------------------------------------------------------------------
(* The store as one value, and zustand's set *)

\* get(): the current state, with the requests in flight and the call counter
Cur ==
    [players |-> players, teams |-> teams, loading |-> loading, error |-> error,
     injuryPredictions |-> injuryPredictions, fetchingInfo |-> fetchingInfo,
     teamsFetching |-> teamsFetching, predictionsBatching |-> predictionsBatching,
     inflight |-> inflight, profileInflight |-> profileInflight,
     callCount |-> callCount, rejected |-> rejected]

\* set(partial): Object.assign({}, state, partial)
Set(s, partial) == Spread(s, partial)

\* `await api.get(...)` / `await api.post(...)`: the call suspends at request req
Await(s, req) ==
    [s EXCEPT !.inflight = @ (+) SetToBag({req}),
              !.callCount = @ + 1]

\* the response of request r arrived: the call resumes
Resume(s, r) == [s EXCEPT !.inflight = @ (-) SetToBag({r})]

\* the records of the players with an id in ids are replaced by new objects: a
\* reference to the old object that a component holds no longer points into
\* the collection
NewObjects(s, ids) ==
    LET Detached(c) == IF c.playerId \in ids THEN [c EXCEPT !.live = FALSE] ELSE c
    IN  [s EXCEPT !.profileInflight = BagOfAll(Detached, @)]

\* how a block of an async function ends: it ran to its end in state s, or it
\* threw an exception with message m that nothing inside it caught
Returned(s) == [state |-> s, thrown |-> <<>>]

Threw(s, m) == [state |-> s, thrown |-> <<m>>]

\* the end of an async function: its promise is fulfilled when the body
\* returned, and rejected when an exception left the body
AsyncEnd(o) ==
    IF o.thrown = <<>> THEN o.state
    ELSE [o.state EXCEPT !.rejected = TRUE]

\* the distinct requests in flight to one endpoint
InFlightTo(ep) == { r \in BagToSet(inflight) : r.ep = ep }

\* how many requests are in flight to one endpoint
RECURSIVE SumCopies(_, _)
SumCopies(rs, bag) ==
    IF rs = {} THEN 0
    ELSE LET r == CHOOSE x \in rs : TRUE
         IN  CopiesIn(r, bag) + SumCopies(rs \ {r}, bag)

NumInFlightTo(ep) == SumCopies(InFlightTo(ep), inflight)

---------------------------------------------------------------------------
(* The store's operations, as functions of the state they run in.  The part *)
(* before the await is the operation's own name; the parts after it are its *)
(* continuations for a request r that resolved with data or failed with     *)
(* message m.                                                               *)

\* the requests of the fetchPlayers calls already running, noted as belonging
\* to a call that is no longer the last one started
Superseded(s) ==
    LET Older(q) == IF q.ep \in {"/players/summary", "/players"}
                    THEN [q EXCEPT !.older = TRUE]
                    ELSE q
    IN  [s EXCEPT !.inflight = BagOfAll(Older, @)]

\* fetchPlayers showing the loading state on every call
fetchPlayersAlwaysLoading(s) ==
    Await(Set(Superseded(s), [loading |-> TRUE, error |-> <<>>]),
          [ep |-> "/players/summary", older |-> FALSE])

\* fetchPlayers returning at once while a request of an earlier call is in flight
fetchPlayersGuarded(s) ==
    IF \E q \in BagToSet(s.inflight) : q.ep \in {"/players/summary", "/players"}
    THEN s
    ELSE LET s1 == IF Len(s.players) = 0
                   THEN Set(s, [loading |-> TRUE, error |-> <<>>])
                   ELSE s
         IN  Await(s1, [ep |-> "/players/summary", older |-> FALSE])

\* fetchPlayers, up to `await api.get('/players/summary')`
fetchPlayers(s) ==
    LET s1 == IF Len(s.players) = 0
              THEN Set(s, [loading |-> TRUE, error |-> <<>>])
              ELSE s
    IN  Await(Superseded(s1), [ep |-> "/players/summary", older |-> FALSE])

\* fetchPlayers falling back to /players also when the summary is empty
fetchPlayersSummaryOkEmptyFallsBack(s, r, data) ==
    IF data = <<>>
    THEN [Resume(s, r) EXCEPT
              !.inflight = @ (+) SetToBag({ [ep |-> "/players", err |-> "empty",
                                             older |-> r.older] })]
    ELSE AsyncEnd(Returned(Set(Resume(s, r), [players |-> data, loading |-> FALSE])))

\* fetchPlayers merging each record of the response into the record it has of
\* that player
fetchPlayersSummaryOkKeepsFields(s, r, data) ==
    LET Old(p) == IF Found(s.players, p.id)
                  THEN s.players[CHOOSE i \in 1..Len(s.players) : s.players[i].id = p.id]
                  ELSE p
        merged == [i \in 1..Len(data) |-> Spread(Old(data[i]), data[i])]
    IN  AsyncEnd(Returned(Set(Resume(s, r), [players |-> merged, loading |-> FALSE])))

\* fetchPlayers dropping the predictions of the players the response does not list
fetchPlayersSummaryOkPurges(s, r, data) ==
    LET Listed(e) == Found(data, e[1])
    IN  AsyncEnd(Returned(Set(NewObjects(Resume(s, r), PlayerIds),
                              [players |-> data, loading |-> FALSE,
                               injuryPredictions |->
                                   SelectSeq(s.injuryPredictions, Listed)])))

\* fetchPlayers: the summary request succeeded
fetchPlayersSummaryOk(s, r, data) ==
    AsyncEnd(Returned(Set(NewObjects(Resume(s, r), PlayerIds),
                          [players |-> data, loading |-> FALSE])))

\* fetchPlayers: the summary request failed; `await api.get('/players')` in the catch
fetchPlayersSummaryFail(s, r, m) ==
    [Resume(s, r) EXCEPT
         !.inflight = @ (+) SetToBag({ [ep |-> "/players", err |-> m, older |-> r.older] })]

\* the fallback's success also recording the summary request's failure
fetchPlayersBasicOkRecordsErr(s, r, data) ==
    Set(Resume(s, r), [players |-> data, loading |-> FALSE, error |-> <<r.err>>])

\* the fallback's success adding the response to the collection it finds
fetchPlayersBasicOkAppends(s, r, data) ==
    AsyncEnd(Returned(Set(Resume(s, r),
                          [players |-> s.players \o data, loading |-> FALSE])))

\* fetchPlayers: the fallback request succeeded
fetchPlayersBasicOk(s, r, data) ==
    AsyncEnd(Returned(Set(NewObjects(Resume(s, r), PlayerIds),
                          [players |-> data, loading |-> FALSE])))

\* the inner catch recording the error and leaving the loading state on
fetchPlayersBasicFailKeepsLoading(s, r, m) ==
    AsyncEnd(Returned(Set(Resume(s, r), [error |-> <<m>>])))

\* the inner catch reading err.message where err2.message is meant
fetchPlayersBasicFailOuterErr(s, r, m) ==
    Set(Resume(s, r), [error |-> <<r.err>>, loading |-> FALSE])

\* fetchPlayers: the fallback request failed (err2); the inner catch handles it
fetchPlayersBasicFail(s, r, m) ==
    AsyncEnd(Returned(Set(Resume(s, r), [error |-> <<m>>, loading |-> FALSE])))

\* fetchTeams without its in-flight guard
fetchTeamsUnguarded(s) ==
    Await(Set(s, [loading |-> TRUE, error |-> <<>>, teamsFetching |-> TRUE]),
          [ep |-> "/teams"])

\* fetchTeams leaving the error slot as it finds it
fetchTeamsKeepsError(s) ==
    IF s.teamsFetching THEN s
    ELSE Await(Set(s, [loading |-> TRUE, teamsFetching |-> TRUE]), [ep |-> "/teams"])

\* fetchTeams, up to `await api.get('/teams')`
fetchTeams(s) ==
    IF s.teamsFetching THEN s
    ELSE Await(Set(s, [loading |-> TRUE, error |-> <<>>, teamsFetching |-> TRUE]),
               [ep |-> "/teams"])

\* fetchTeams leaving the loading state on while a player request is in flight
fetchTeamsOkWaitsForPlayers(s, r, data) ==
    LET t == Resume(s, r)
        playersPending == \E q \in BagToSet(t.inflight) :
                              q.ep \in {"/players/summary", "/players"}
    IN  AsyncEnd(Returned(Set(t, [teams |-> data, loading |-> playersPending,
                                  teamsFetching |-> FALSE])))

\* fetchTeams clearing the error slot when it succeeds
fetchTeamsOkClearsError(s, r, data) ==
    AsyncEnd(Returned(Set(Resume(s, r),
                          [teams |-> data, loading |-> FALSE, teamsFetching |-> FALSE,
                           error |-> <<>>])))

\* fetchTeams: the request succeeded
fetchTeamsOk(s, r, data) ==
    AsyncEnd(Returned(Set(Resume(s, r),
                          [teams |-> data, loading |-> FALSE, teamsFetching |-> FALSE])))

\* fetchTeams emptying the team collection when the request fails
fetchTeamsFailClearsTeams(s, r, m) ==
    AsyncEnd(Returned(Set(Resume(s, r),
                          [teams |-> <<>>, error |-> <<m>>, loading |-> FALSE,
                           teamsFetching |-> FALSE])))

\* fetchTeams: the request failed; the catch handles it
fetchTeamsFail(s, r, m) ==
    AsyncEnd(Returned(Set(Resume(s, r),
                          [error |-> <<m>>, loading |-> FALSE, teamsFetching |-> FALSE])))

\* predictInjury, up to `await api.post('/predict_injury', ...)`
predictInjury(s, playerId, args) ==
    Await(s, [ep |-> "/predict_injury", playerId |-> playerId,
              temperature |-> Temperature(args), humidity |-> Humidity(args)])

\* what reading a property of null throws
NullReadMessage == "Cannot read properties of null"

\* predictInjury: the request succeeded; reading a null body throws inside the
\* try block, and the catch handles it
predictInjuryOk(s, r, data) ==
    IF data.kind = "null"
    THEN AsyncEnd(Returned(Set(Resume(s, r), [error |-> <<NullReadMessage>>])))
    ELSE LET normalized == Normalize(data.body, r.temperature, r.humidity)
         IN  AsyncEnd(Returned(Set(Resume(s, r),
                 [injuryPredictions |-> MapSet(s.injuryPredictions, r.playerId, normalized)])))

\* predictInjury with a catch that records the message and throws it again
predictInjuryFailRethrows(s, r, m) ==
    AsyncEnd(Threw(Set(Resume(s, r), [error |-> <<m>>]), m))

\* predictInjury: the request failed; the catch handles it
predictInjuryFail(s, r, m) ==
    AsyncEnd(Returned(Set(Resume(s, r), [error |-> <<m>>])))

\* fetchPlayerInfo without its per-id guard
fetchPlayerInfoUnguarded(s, playerId) ==
    Await([s EXCEPT !.fetchingInfo = @ \cup {playerId}],
          [ep |-> "/player/info", playerId |-> playerId, s |-> [players |-> s.players]])

\* fetchPlayerInfo, up to `await api.get('/player/${playerId}/info')`
fetchPlayerInfo(s, playerId) ==
    IF playerId \in s.fetchingInfo THEN s
    ELSE Await([s EXCEPT !.fetchingInfo = @ \cup {playerId}],
               [ep |-> "/player/info", playerId |-> playerId, s |-> [players |-> s.players]])

\* fetchPlayerInfo merging into the collection of the state it read when called
fetchPlayerInfoOkFromCallState(s, r, data) ==
    LET Upd(p) == IF p.id = r.playerId THEN Spread(p, data) ELSE p
        updatedPlayers == [i \in 1..Len(r.s.players) |-> Upd(r.s.players[i])]
    IN  AsyncEnd(Returned(Set([NewObjects(Resume(s, r), {r.playerId})
                                   EXCEPT !.fetchingInfo = @ \ {r.playerId}],
                              [players |-> updatedPlayers])))

\* the merge with the spread operands swapped: { ...res.data, ...p }
fetchPlayerInfoOkSwapped(s, r, data) ==
    LET Upd(p) == IF p.id = r.playerId THEN Spread(data, p) ELSE p
        updatedPlayers == [i \in 1..Len(s.players) |-> Upd(s.players[i])]
    IN  Set([Resume(s, r) EXCEPT !.fetchingInfo = @ \ {r.playerId}],
            [players |-> updatedPlayers])

\* fetchPlayerInfo: the request succeeded
fetchPlayerInfoOk(s, r, data) ==
    LET Upd(p) == IF p.id = r.playerId THEN Spread(p, data) ELSE p
        updatedPlayers == [i \in 1..Len(s.players) |-> Upd(s.players[i])]
    IN  AsyncEnd(Returned(Set([NewObjects(Resume(s, r), {r.playerId})
                                   EXCEPT !.fetchingInfo = @ \ {r.playerId}],
                              [players |-> updatedPlayers])))

\* fetchPlayerInfo with a catch that records the error and keeps the id
fetchPlayerInfoFailKeepsGuard(s, r, m) ==
    AsyncEnd(Returned(Set(Resume(s, r), [error |-> <<m>>])))

\* fetchPlayerInfo: the request failed; the catch handles it
fetchPlayerInfoFail(s, r, m) ==
    AsyncEnd(Returned([Set(Resume(s, r), [error |-> <<m>>])
                          EXCEPT !.fetchingInfo = @ \ {r.playerId}]))

\* getTeamById loading on every miss
getTeamByIdEveryMiss(s, teamId) ==
    IF ~Found(s.teams, teamId)
    THEN fetchTeamsUnguarded(s)
    ELSE s

\* getTeamById loading only while no team at all is cached
getTeamByIdOnlyWhenEmpty(s, teamId) ==
    IF Len(s.teams) = 0 /\ ~s.teamsFetching
    THEN fetchTeams(s)
    ELSE s

\* getTeamById: the value it returns, teams.find(t => t.id === teamId): <<t>>,
\* or <<>> for undefined
getTeamByIdResult(s, teamId) ==
    IF Found(s.teams, teamId)
    THEN <<s.teams[CHOOSE i \in 1..Len(s.teams) :
                       /\ s.teams[i].id = teamId
                       /\ \A j \in 1..(i - 1) : s.teams[j].id # teamId]>>
    ELSE <<>>

\* getTeamById: the state it leaves (the value it returns is Found(s.teams, teamId))
getTeamById(s, teamId) ==
    IF ~Found(s.teams, teamId) /\ ~s.teamsFetching
    THEN fetchTeams(s)
    ELSE s

\* batchPredictAll guarding only against an empty collection
batchPredictAllNoFlightGuard(s) ==
    IF Len(s.players) = 0 THEN s
    ELSE Await(Set(s, [predictionsBatching |-> TRUE]),
               [ep |-> "/predict_injury/bulk", ids |-> IdsOf(s.players)])

\* batchPredictAll guarding only against a pass in flight
batchPredictAllNoEmptyGuard(s) ==
    IF s.predictionsBatching THEN s
    ELSE Await(Set(s, [predictionsBatching |-> TRUE]),
               [ep |-> "/predict_injury/bulk", ids |-> IdsOf(s.players)])

\* batchPredictAll, up to `await api.post('/predict_injury/bulk', ids)`
batchPredictAll(s) ==
    IF s.predictionsBatching \/ Len(s.players) = 0 THEN s
    ELSE Await(Set(s, [predictionsBatching |-> TRUE]),
               [ep |-> "/predict_injury/bulk", ids |-> IdsOf(s.players)])

\* the merge starting from an empty Map instead of a copy of the current one
batchPredictAllOkFreshMap(s, r, data) ==
    LET s1 == IF data.kind = "null"
              THEN Set(Resume(s, r), [error |-> <<"Cannot convert undefined or null to object">>])
              ELSE Set(Resume(s, r),
                       [injuryPredictions |-> MergeAll(<<>>, ObjectValues(data.body))])
    IN  Set(s1, [predictionsBatching |-> FALSE])

\* what Object.values(null) throws
NullObjectMessage == "Cannot convert undefined or null to object"

\* batchPredictAll with the flag cleared at the end of the try block instead of
\* in a finally block: a response that cannot be merged leaves it set
batchPredictAllOkNoFinally(s, r, data) ==
    IF data.kind = "null"
    THEN Set(Resume(s, r), [error |-> <<NullObjectMessage>>])
    ELSE Set(Set(Resume(s, r),
                 [injuryPredictions |->
                      MergeAll(s.injuryPredictions, ObjectValues(data.body))]),
             [predictionsBatching |-> FALSE])

\* batchPredictAll: the request succeeded; Object.values of a null body throws
\* inside the try block, and the catch handles it; the finally block runs last
batchPredictAllOk(s, r, data) ==
    LET s1 == IF data.kind = "null"
              THEN Set(Resume(s, r), [error |-> <<NullObjectMessage>>])
              ELSE Set(Resume(s, r),
                       [injuryPredictions |->
                            MergeAll(s.injuryPredictions, ObjectValues(data.body))])
    IN  AsyncEnd(Returned(Set(s1, [predictionsBatching |-> FALSE])))

\* batchPredictAll: the request failed; the catch handles it, and the finally
\* block runs last
batchPredictAllFail(s, r, m) ==
    AsyncEnd(Returned(Set(Set(Resume(s, r), [error |-> <<m>>]),
                          [predictionsBatching |-> FALSE])))

---------------------------------------------------------------------------
(* PlayerProfile: the end of fetchData, "Fallback height/weight if missing".  *)
(* `player` is the object getPlayerById returned, the store's own record; the *)
(* requests fetchData awaits before (career, injury history, game log, shot   *)
(* chart) only set state of the component.                                    *)

\* getPlayerById(playerId) is the record at index i
IsPlayerById(s, i) ==
    /\ i \in 1..Len(s.players)
    /\ \A j \in 1..(i - 1) : s.players[j].id # s.players[i].id

\* `if (!player?.height_feet && player)`, up to `await api.get(.../info)`
ProfileFetchInfo(s, i) ==
    IF IsPlayerById(s, i) /\ "height_feet" \notin DOMAIN s.players[i]
    THEN [s EXCEPT !.profileInflight =
                       @ (+) SetToBag({ [playerId |-> s.players[i].id, idx |-> i,
                                         live |-> TRUE] }),
                   !.callCount = @ + 1]
    ELSE s

\* Object.assign(player, infoRes.data): writes into the object itself, which is
\* the record of the collection unless the store replaced it meanwhile
ProfileObjectAssign(s, c, data) ==
    LET s1 == [s EXCEPT !.profileInflight = @ (-) SetToBag({c})]
    IN  IF c.live
        THEN [s1 EXCEPT !.players[c.idx] = Spread(@, data)]
        ELSE s1

\* the info request of fetchData failed: its catch logs to the console
ProfileInfoFailed(s, c) ==
    [s EXCEPT !.profileInflight = @ (-) SetToBag({c})]

---------------------------------------------------------------------------
(* Actions *)

\* the step leaves the store in state t
Commit(t) ==
    /\ t.callCount <= MaxCalls
    /\ players' = t.players
    /\ teams' = t.teams
    /\ loading' = t.loading
    /\ error' = t.error
    /\ injuryPredictions' = t.injuryPredictions
    /\ fetchingInfo' = t.fetchingInfo
    /\ teamsFetching' = t.teamsFetching
    /\ predictionsBatching' = t.predictionsBatching
    /\ inflight' = t.inflight
    /\ profileInflight' = t.profileInflight
    /\ callCount' = t.callCount
    /\ rejected' = t.rejected

Init ==
    /\ players = <<>>
    /\ teams = <<>>
    /\ loading = FALSE
    /\ error = <<>>
    /\ injuryPredictions = <<>>
    /\ fetchingInfo = {}
    /\ teamsFetching = FALSE
    /\ predictionsBatching = FALSE
    /\ prefetchRef = FALSE
    /\ inflight = EmptyBag
    /\ profileInflight = EmptyBag
    /\ callCount = 0
    /\ rejected = FALSE
    /\ lastOp = [op |-> "create", issued |-> 0, erased |-> FALSE, stale |-> FALSE,
                 drifted |-> FALSE]

\* what the step of action `name` leaves in lastOp
\* (stale: the step resolved the last player request in flight, and that request
\* belonged to a fetchPlayers call started before another one; drifted: the step
\* resolved a /player/info request whose call had seen another collection)
Last(name) ==
    [op |-> name, issued |-> callCount' - callCount,
     erased |-> error # <<>> /\ error' = <<>>,
     stale |-> /\ \E q \in BagToSet(inflight) :
                     /\ q.ep \in {"/players/summary", "/players"}
                     /\ q.older
                     /\ CopiesIn(q, inflight') < CopiesIn(q, inflight)
               /\ \A q \in BagToSet(inflight') :
                     q.ep \notin {"/players/summary", "/players"},
     drifted |-> \E q \in BagToSet(inflight) :
                     /\ q.ep = "/player/info"
                     /\ CopiesIn(q, inflight') < CopiesIn(q, inflight)
                     /\ q.s.players # players]

CallFetchPlayersStep ==
    /\ Commit(fetchPlayers(Cur))
    /\ UNCHANGED prefetchRef

CallFetchPlayers ==
    /\ CallFetchPlayersStep
    /\ lastOp' = Last("CallFetchPlayers")

CallFetchTeamsStep ==
    /\ Commit(fetchTeams(Cur))
    /\ UNCHANGED prefetchRef

CallFetchTeams ==
    /\ CallFetchTeamsStep
    /\ lastOp' = Last("CallFetchTeams")

CallPredictInjuryStep(playerId, args) ==
    /\ Commit(predictInjury(Cur, playerId, args))
    /\ UNCHANGED prefetchRef

CallPredictInjury ==
    \E playerId \in PlayerIds, args \in OptionalArgs :
        /\ CallPredictInjuryStep(playerId, args)
        /\ lastOp' = Last("CallPredictInjury")

CallFetchPlayerInfoStep(playerId) ==
    /\ Commit(fetchPlayerInfo(Cur, playerId))
    /\ UNCHANGED prefetchRef

CallFetchPlayerInfo ==
    \E playerId \in PlayerIds :
        /\ CallFetchPlayerInfoStep(playerId)
        /\ lastOp' = Last("CallFetchPlayerInfo")

CallGetTeamByIdStep(teamId) ==
    /\ Commit(getTeamById(Cur, teamId))
    /\ UNCHANGED prefetchRef

CallGetTeamById ==
    \E teamId \in TeamIds :
        /\ CallGetTeamByIdStep(teamId)
        /\ lastOp' = Last("CallGetTeamById")

CallBatchPredictAllStep ==
    /\ Commit(batchPredictAll(Cur))
    /\ UNCHANGED prefetchRef

CallBatchPredictAll ==
    /\ CallBatchPredictAllStep
    /\ lastOp' = Last("CallBatchPredictAll")

\* Dashboard's mount effect: fetchPlayers(); fetchTeams(); of a fresh component
DashboardMountStep ==
    /\ Commit(fetchTeams(fetchPlayers(Cur)))
    /\ prefetchRef' = FALSE

DashboardMount ==
    /\ DashboardMountStep
    /\ lastOp' = Last("DashboardMount")

\* Dashboard's prefetch effect
DashboardPrefetchStep ==
    /\ ~prefetchRef /\ Len(players) > 0
    /\ prefetchRef' = TRUE
    /\ Commit(batchPredictAll(Cur))

DashboardPrefetch ==
    /\ DashboardPrefetchStep
    /\ lastOp' = Last("DashboardPrefetch")

\* Analytics' effect: "trigger batch prediction if empty and players loaded"
AnalyticsEffectStep ==
    /\ Len(players) > 0 /\ Len(injuryPredictions) = 0
    /\ Commit(batchPredictAll(Cur))
    /\ UNCHANGED prefetchRef

AnalyticsEffect ==
    /\ AnalyticsEffectStep
    /\ lastOp' = Last("AnalyticsEffect")

SummaryOkStep(r, data) ==
    /\ Commit(fetchPlayersSummaryOk(Cur, r, data))
    /\ UNCHANGED prefetchRef

SummaryOk ==
    \E r \in InFlightTo("/players/summary"), data \in PlayerPayloads :
        /\ SummaryOkStep(r, data)
        /\ lastOp' = Last("SummaryOk")

SummaryFailStep(r, m) ==
    /\ Commit(fetchPlayersSummaryFail(Cur, r, m))
    /\ UNCHANGED prefetchRef

SummaryFail ==
    \E r \in InFlightTo("/players/summary"), m \in ErrorMessages :
        /\ SummaryFailStep(r, m)
        /\ lastOp' = Last("SummaryFail")

BasicOkStep(r, data) ==
    /\ Commit(fetchPlayersBasicOk(Cur, r, data))
    /\ UNCHANGED prefetchRef

BasicOk ==
    \E r \in InFlightTo("/players"), data \in PlayerPayloads :
        /\ BasicOkStep(r, data)
        /\ lastOp' = Last("BasicOk")

BasicFailStep(r, m) ==
    /\ Commit(fetchPlayersBasicFail(Cur, r, m))
    /\ UNCHANGED prefetchRef

BasicFail ==
    \E r \in InFlightTo("/players"), m \in ErrorMessages :
        /\ BasicFailStep(r, m)
        /\ lastOp' = Last("BasicFail")

TeamsOkStep(r, data) ==
    /\ Commit(fetchTeamsOk(Cur, r, data))
    /\ UNCHANGED prefetchRef

TeamsOk ==
    \E r \in InFlightTo("/teams"), data \in TeamPayloads :
        /\ TeamsOkStep(r, data)
        /\ lastOp' = Last("TeamsOk")

TeamsFailStep(r, m) ==
    /\ Commit(fetchTeamsFail(Cur, r, m))
    /\ UNCHANGED prefetchRef

TeamsFail ==
    \E r \in InFlightTo("/teams"), m \in ErrorMessages :
        /\ TeamsFailStep(r, m)
        /\ lastOp' = Last("TeamsFail")

PredictOkStep(r, data) ==
    /\ Commit(predictInjuryOk(Cur, r, data))
    /\ UNCHANGED prefetchRef

PredictOk ==
    \E r \in InFlightTo("/predict_injury"), data \in PredictPayloads :
        /\ PredictOkStep(r, data)
        /\ lastOp' = Last("PredictOk")

PredictFailStep(r, m) ==
    /\ Commit(predictInjuryFail(Cur, r, m))
    /\ UNCHANGED prefetchRef

PredictFail ==
    \E r \in InFlightTo("/predict_injury"), m \in ErrorMessages :
        /\ PredictFailStep(r, m)
        /\ lastOp' = Last("PredictFail")

InfoOkStep(r, data) ==
    /\ Commit(fetchPlayerInfoOk(Cur, r, data))
    /\ UNCHANGED prefetchRef

InfoOk ==
    \E r \in InFlightTo("/player/info"), data \in InfoPayloads :
        /\ InfoOkStep(r, data)
        /\ lastOp' = Last("InfoOk")

InfoFailStep(r, m) ==
    /\ Commit(fetchPlayerInfoFail(Cur, r, m))
    /\ UNCHANGED prefetchRef

InfoFail ==
    \E r \in InFlightTo("/player/info"), m \in ErrorMessages :
        /\ InfoFailStep(r, m)
        /\ lastOp' = Last("InfoFail")

BulkOkStep(r, data) ==
    /\ Commit(batchPredictAllOk(Cur, r, data))
    /\ UNCHANGED prefetchRef

BulkOk ==
    \E r \in InFlightTo("/predict_injury/bulk"), data \in BulkPayloads :
        /\ BulkOkStep(r, data)
        /\ lastOp' = Last("BulkOk")

BulkFailStep(r, m) ==
    /\ Commit(batchPredictAllFail(Cur, r, m))
    /\ UNCHANGED prefetchRef

BulkFail ==
    \E r \in InFlightTo("/predict_injury/bulk"), m \in ErrorMessages :
        /\ BulkFailStep(r, m)
        /\ lastOp' = Last("BulkFail")

ProfileInfoCallStep(i) ==
    /\ IsPlayerById(Cur, i)
    /\ Commit(ProfileFetchInfo(Cur, i))
    /\ UNCHANGED prefetchRef

ProfileInfoCall ==
    \E i \in 1..Len(players) :
        /\ ProfileInfoCallStep(i)
        /\ lastOp' = Last("ProfileInfoCall")

ProfileInfoOkStep(c, data) ==
    /\ Commit(ProfileObjectAssign(Cur, c, data))
    /\ UNCHANGED prefetchRef

ProfileInfoOk ==
    \E c \in BagToSet(profileInflight), data \in InfoPayloads :
        /\ ProfileInfoOkStep(c, data)
        /\ lastOp' = Last("ProfileInfoOk")

ProfileInfoFailStep(c) ==
    /\ Commit(ProfileInfoFailed(Cur, c))
    /\ UNCHANGED prefetchRef

ProfileInfoFail ==
    \E c \in BagToSet(profileInflight) :
        /\ ProfileInfoFailStep(c)
        /\ lastOp' = Last("ProfileInfoFail")

Next ==
    \/ CallFetchPlayers
    \/ CallFetchTeams
    \/ CallPredictInjury
    \/ CallFetchPlayerInfo
    \/ CallGetTeamById
    \/ CallBatchPredictAll
    \/ DashboardMount
    \/ DashboardPrefetch
    \/ AnalyticsEffect
    \/ SummaryOk
    \/ SummaryFail
    \/ BasicOk
    \/ BasicFail
    \/ TeamsOk
    \/ TeamsFail
    \/ PredictOk
    \/ PredictFail
    \/ InfoOk
    \/ InfoFail
    \/ BulkOk
    \/ BulkFail
    \/ ProfileInfoCall
    \/ ProfileInfoOk
    \/ ProfileInfoFail

Spec == Init /\ [][Next]_vars

\* the resolution, either way, of the info request of player id
InfoResolves(id) ==
    \E r \in InFlightTo("/player/info") :
        /\ r.playerId = id
        /\ \/ \E data \in InfoPayloads :
                  InfoOkStep(r, data) /\ lastOp' = Last("InfoOk")
           \/ \E m \in ErrorMessages :
                  InfoFailStep(r, m) /\ lastOp' = Last("InfoFail")

\* every request a store operation issued is eventually answered or fails: the
\* promise it awaits is eventually settled
FairSpec ==
    /\ Spec
    /\ WF_vars(SummaryOk \/ SummaryFail)
    /\ WF_vars(BasicOk \/ BasicFail)
    /\ WF_vars(TeamsOk \/ TeamsFail)
    /\ WF_vars(PredictOk \/ PredictFail)
    /\ WF_vars(BulkOk \/ BulkFail)
    /\ \A id \in PlayerIds : WF_vars(InfoResolves(id))

---------------------------------------------------------------------------
(* Properties of the store *)

BulkEp == "/predict_injury/bulk"

\* C1: fetchTeams is de-duplicated: at most one /teams request is in flight in
\* every reachable state, and a fetchTeams call made while teamsFetching is true
\* issues no request and changes no state.
C1_TeamsDeduplicated ==
    /\ [](NumInFlightTo("/teams") <= 1)
    /\ [][(teamsFetching /\ lastOp'.op = "CallFetchTeams")
            => UNCHANGED <<storeVars, prefetchRef, inflight, callCount>>]_vars

\* a fetchTeams call was suppressed: the last step was a call that issued no
\* request, and a load is in flight
C1_Witness ==
    /\ lastOp.op = "CallFetchTeams" /\ lastOp.issued = 0
    /\ teamsFetching
    /\ NumInFlightTo("/teams") = 1

\* C2: batchPredictAll called while predictionsBatching is true or while the
\* player collection is empty issues no request and leaves every store variable
\* unchanged.
C2_PredictAllNoOp ==
    [][((predictionsBatching \/ Len(players) = 0)
          /\ lastOp'.op \in {"CallBatchPredictAll", "DashboardPrefetch", "AnalyticsEffect"})
        => UNCHANGED <<storeVars, inflight, callCount>>]_vars

\* a batchPredictAll call was suppressed while a pass is in flight: the last step
\* was a call that issued no request, with players loaded
C2_Witness ==
    /\ lastOp.op = "CallBatchPredictAll" /\ lastOp.issued = 0
    /\ predictionsBatching
    /\ Len(players) > 0
    /\ NumInFlightTo(BulkEp) = 1

\* C3: at most one bulk prediction request is in flight, and every bulk request
\* in flight carries a non-empty list of ids.
C3_OneNonEmptyBulk ==
    /\ NumInFlightTo(BulkEp) <= 1
    /\ \A r \in InFlightTo(BulkEp) : Len(r.ids) > 0

\* Dashboard's prefetch effect has run, a pass is in flight and the prediction
\* map is still empty, so that Analytics' effect calls batchPredictAll as well
C3_Witness ==
    /\ prefetchRef
    /\ NumInFlightTo(BulkEp) = 1
    /\ Len(players) > 0
    /\ Len(injuryPredictions) = 0
    /\ lastOp.op = "AnalyticsEffect" /\ lastOp.issued = 0

\* C4: a getTeamById miss made while a /teams request is in flight issues no
\* request, and a miss made while none is in flight leaves exactly one in flight.
C4_OneLoadPerMissEpisode ==
    [][lastOp'.op = "CallGetTeamById" =>
         \A teamId \in TeamIds :
           (CallGetTeamByIdStep(teamId) /\ ~Found(teams, teamId))
           => IF NumInFlightTo("/teams") >= 1
              THEN inflight' = inflight /\ callCount' = callCount
              ELSE inflight' = inflight (+) SetToBag({[ep |-> "/teams"]})]_vars

\* a miss was suppressed: the last step was a getTeamById that issued no request,
\* no team is cached, and a load is in flight
C4_Witness ==
    /\ lastOp.op = "CallGetTeamById" /\ lastOp.issued = 0
    /\ NumInFlightTo("/teams") = 1
    /\ teams = <<>>

\* the entry a Map holds for key k: <<v>>, or <<>> when it has none
Entry(m, k) == IF MapHas(m, k) THEN <<MapGet(m, k)>> ELSE <<>>

\* what a bulk response body writes under key k: the value of its last entry, in
\* iteration order, whose player_id is k; <<>> when it has none
BulkWrite(body, k) ==
    LET ks == { key \in DOMAIN body : body[key].player_id = k }
    IN  IF ks = {} THEN <<>>
        ELSE <<body[CHOOSE key \in ks : \A other \in ks : other <= key]>>

\* C5: the prediction mapping holds at most one entry per player id, and the
\* entry of an id is the one written by the last completed operation that wrote
\* that id: a completed predictInjury writes its normalized response under its
\* playerId, a completed batchPredictAll writes each response entry under the
\* entry's player_id, and no step changes the entry of an id it does not write.
C5_OneEntryLastWriteWins ==
    /\ [](\A i, j \in 1..Len(injuryPredictions) :
            injuryPredictions[i][1] = injuryPredictions[j][1] => i = j)
    /\ [][lastOp'.op = "PredictOk" =>
            \A r \in InFlightTo("/predict_injury"), data \in PredictPayloads :
              (PredictOkStep(r, data) /\ data.kind = "object")
              => \A k \in PlayerIds :
                   Entry(injuryPredictions', k) =
                      IF k = r.playerId
                      THEN <<Normalize(data.body, r.temperature, r.humidity)>>
                      ELSE Entry(injuryPredictions, k)]_vars
    /\ [][lastOp'.op = "BulkOk" =>
            \A r \in InFlightTo(BulkEp), data \in BulkPayloads :
              (BulkOkStep(r, data) /\ data.kind = "object")
              => \A k \in PlayerIds :
                   Entry(injuryPredictions', k) =
                      IF BulkWrite(data.body, k) # <<>>
                      THEN BulkWrite(data.body, k)
                      ELSE Entry(injuryPredictions, k)]_vars
    /\ [][lastOp'.op \notin {"PredictOk", "BulkOk"}
            => injuryPredictions' = injuryPredictions]_vars

\* a completed predictInjury overwrote the entry a bulk pass had written for id 1:
\* the map holds the bulk pass's raw entry for id 2 after a normalized entry for 1
C5_Witness ==
    /\ lastOp.op = "PredictOk"
    /\ Len(injuryPredictions) = 2
    /\ injuryPredictions[1][1] = 1
    /\ "factors" \in DOMAIN injuryPredictions[1][2]
    /\ injuryPredictions[2][1] = 2
    /\ "factors" \notin DOMAIN injuryPredictions[2][2]

\* C6: when the summary request of fetchPlayers fails and the fallback request
\* succeeds, the player collection becomes the fallback payload, and neither the
\* summary failure nor the fallback success writes the error slot.
C6_FallbackSuccess ==
    /\ [][lastOp'.op = "SummaryFail" =>
            \A r \in InFlightTo("/players/summary"), m \in ErrorMessages :
              SummaryFailStep(r, m)
              => error' = error /\ players' = players]_vars
    /\ [][lastOp'.op = "BasicOk" =>
            \A r \in InFlightTo("/players"), data \in PlayerPayloads :
              BasicOkStep(r, data)
              => players' = data /\ error' = error]_vars

\* the fallback request succeeded with a non-empty payload and no error is recorded
C6_Witness ==
    /\ lastOp.op = "BasicOk"
    /\ players = <<P1>>
    /\ error = <<>>

\* C7: when both requests of fetchPlayers fail, no step of the call changes the
\* player collection, the error slot becomes the message of the fallback
\* request's failure, and loading becomes false.
C7_BothFail ==
    /\ [][lastOp'.op \in {"CallFetchPlayers", "SummaryFail", "BasicFail"}
            => players' = players]_vars
    /\ [][lastOp'.op = "BasicFail" =>
            \A r \in InFlightTo("/players"), m \in ErrorMessages :
              BasicFailStep(r, m)
              => error' = <<m>> /\ loading' = FALSE]_vars

\* a second call's requests both failed while players were cached: the collection
\* is kept and the slot, null until then, holds the fallback failure's message
C7_Witness ==
    /\ lastOp.op = "BasicFail"
    /\ players # <<>>
    /\ error = <<"Network Error">>
    /\ ~loading
    /\ inflight = EmptyBag
    /\ callCount = 2

\* C8: a successful fetchPlayerInfo merges the response into every player record
\* whose id matches: fields of the response take the response's value, the other
\* fields keep theirs, and every other record is unchanged.
C8_EnrichMerges ==
    [][lastOp'.op = "InfoOk" =>
         \A r \in InFlightTo("/player/info"), data \in InfoPayloads :
           InfoOkStep(r, data)
           => /\ Len(players') = Len(players)
              /\ \A i \in 1..Len(players) :
                   IF players[i].id = r.playerId
                   THEN /\ DOMAIN players'[i] = DOMAIN players[i] \cup DOMAIN data
                        /\ \A f \in DOMAIN data : players'[i][f] = data[f]
                        /\ \A f \in DOMAIN players[i] \ DOMAIN data :
                              players'[i][f] = players[i][f]
                   ELSE players'[i] = players[i]]_vars

\* player 1, loaded without a height, was enriched with {height_feet: 6} and kept
\* its weight_pounds
C8_Witness ==
    /\ lastOp.op = "InfoOk"
    /\ \E i \in 1..Len(players) :
         players[i] = [id |-> 1, height_feet |-> 6, weight_pounds |-> 200]

\* C9: a batchPredictAll that proceeds issues exactly one bulk request, carrying
\* the ids of all players of the collection at call time; its success writes
\* every entry of the response over the prediction mapping and keeps the entries
\* of the ids the response does not have; from players [1] and no predictions,
\* the response {1: High} leaves exactly one prediction, for id 1, of level High.
C9_PredictAllMerges ==
    /\ [][(lastOp'.op \in {"CallBatchPredictAll", "DashboardPrefetch", "AnalyticsEffect"}
            /\ ~predictionsBatching /\ Len(players) > 0)
          => /\ inflight' = inflight (+) SetToBag({[ep |-> BulkEp, ids |-> IdsOf(players)]})
             /\ callCount' = callCount + 1]_vars
    /\ [][lastOp'.op = "BulkOk" =>
            \A r \in InFlightTo(BulkEp), data \in BulkPayloads :
              (BulkOkStep(r, data) /\ data.kind = "object")
              => /\ inflight' = inflight (-) SetToBag({r})
                 /\ \A k \in PlayerIds :
                      IF \E key \in DOMAIN data.body : data.body[key].player_id = k
                      THEN /\ MapHas(injuryPredictions', k)
                           /\ \E key \in DOMAIN data.body :
                                 MapGet(injuryPredictions', k) = data.body[key]
                      ELSE Entry(injuryPredictions', k) = Entry(injuryPredictions, k)
                 /\ (r.ids = <<1>> /\ injuryPredictions = <<>>
                       /\ data.body = (1 :> PredFull(1)))
                    => /\ Len(injuryPredictions') = 1
                       /\ injuryPredictions'[1][1] = 1
                       /\ injuryPredictions'[1][2].risk_level = "High"]_vars

\* the scenario: players [1], one bulk pass answered {1: High}, one prediction
C9_Witness ==
    /\ lastOp.op = "BulkOk"
    /\ players = <<P1>>
    /\ Len(injuryPredictions) = 1
    /\ injuryPredictions[1][1] = 1
    /\ injuryPredictions[1][2].risk_level = "High"
    /\ callCount = 2

\* C10: at most one info request per player id is in flight, and a fetchPlayerInfo
\* call for an id that is in fetchingInfo issues no request and changes no state.
C10_EnrichDeduplicated ==
    /\ [](\A playerId \in PlayerIds :
            SumCopies({ r \in InFlightTo("/player/info") : r.playerId = playerId },
                      inflight) <= 1)
    /\ [][lastOp'.op = "CallFetchPlayerInfo" =>
            \A playerId \in PlayerIds :
              (CallFetchPlayerInfoStep(playerId)
                 /\ playerId \in fetchingInfo)
              => UNCHANGED <<storeVars, prefetchRef, inflight, callCount>>]_vars

\* info requests for both ids are in flight together, and the last step was a
\* fetchPlayerInfo call that issued no request
C10_Witness ==
    /\ lastOp.op = "CallFetchPlayerInfo" /\ lastOp.issued = 0
    /\ NumInFlightTo("/player/info") = 2
    /\ fetchingInfo = PlayerIds

\* C11: every in-flight guard is cleared when its request resolves, whether it
\* succeeds or fails. When every issued request is eventually resolved,
\* teamsFetching = TRUE leads to teamsFetching = FALSE, predictionsBatching =
\* TRUE leads to predictionsBatching = FALSE (also when the bulk response is
\* null and merging it throws), and every id in fetchingInfo is eventually
\* removed from it. ("G leads to ~G" is the same as "always eventually ~G":
\* where G is false, ~G holds at once.)
C11_GuardsCleared ==
    /\ []<>(~predictionsBatching)
    /\ []<>(~teamsFetching)
    /\ \A id \in PlayerIds : []<>(id \notin fetchingInfo)

\* a bulk response that could not be merged was received and the flag is clear
C11_Witness ==
    /\ lastOp.op = "BulkOk"
    /\ error = <<NullObjectMessage>>
    /\ ~predictionsBatching
    /\ NumInFlightTo(BulkEp) = 0

C13_ErrorSlotLatest ==
    /\ [](Len(error) <= 1)
    /\ [][/\ lastOp'.op = "BasicFail" =>
                \A r \in InFlightTo("/players"), m \in ErrorMessages :
                    BasicFailStep(r, m) => Len(error') = 1 /\ error'[1] = m
          /\ lastOp'.op = "TeamsFail" =>
                \A r \in InFlightTo("/teams"), m \in ErrorMessages :
                    TeamsFailStep(r, m) => Len(error') = 1 /\ error'[1] = m
          /\ lastOp'.op = "PredictFail" =>
                \A r \in InFlightTo("/predict_injury"), m \in ErrorMessages :
                    PredictFailStep(r, m) => Len(error') = 1 /\ error'[1] = m
          /\ lastOp'.op = "InfoFail" =>
                \A r \in InFlightTo("/player/info"), m \in ErrorMessages :
                    InfoFailStep(r, m) => Len(error') = 1 /\ error'[1] = m
          /\ lastOp'.op = "BulkFail" =>
                \A r \in InFlightTo(BulkEp), m \in ErrorMessages :
                    BulkFailStep(r, m) => Len(error') = 1 /\ error'[1] = m
          /\ lastOp'.op \in {"SummaryOk", "BasicOk", "TeamsOk", "InfoOk"} =>
                error' = error
          /\ lastOp'.op = "PredictOk" =>
                \A r \in InFlightTo("/predict_injury"), data \in PredictPayloads :
                    data.kind = "object" /\ PredictOkStep(r, data) => error' = error
          /\ lastOp'.op = "BulkOk" =>
                \A r \in InFlightTo(BulkEp), data \in BulkPayloads :
                    data.kind = "object" /\ BulkOkStep(r, data) => error' = error
         ]_vars

\* the teams were loaded and the message of an earlier failure is still shown
C13_Witness ==
    /\ lastOp.op = "TeamsOk"
    /\ Len(teams) > 0
    /\ error = <<"Network Error">>

\* C14: predictInjury(playerId, temperature, humidity) sends temperature and
\* humidity, 72 and 50 when the caller passed none, and on success stores under
\* playerId one entry whose factors.temperature and factors.humidity are the
\* environmental values of the response when it carries them and the request
\* inputs otherwise; an existing entry of playerId is overwritten and the
\* entries of the other ids are unchanged.
C14_PredictOneNormalizes ==
    [][/\ lastOp'.op = "CallPredictInjury" =>
            \A playerId \in PlayerIds, args \in OptionalArgs :
                CallPredictInjuryStep(playerId, args) =>
                    inflight' = inflight (+) SetToBag({
                        [ep |-> "/predict_injury", playerId |-> playerId,
                         temperature |-> IF args = <<>> THEN 72 ELSE args[1],
                         humidity |-> IF args = <<>> THEN 50 ELSE args[2]] })
       /\ lastOp'.op = "PredictOk" =>
            \A r \in InFlightTo("/predict_injury"), data \in PredictPayloads :
                data.kind = "object" /\ PredictOkStep(r, data) =>
                    LET e == Entry(injuryPredictions', r.playerId)
                        supplied == "contributing_factors" \in DOMAIN data.body
                        env == data.body.contributing_factors.environmental
                    IN  /\ Len(e) = 1
                        /\ Cardinality({ i \in 1..Len(injuryPredictions') :
                                           injuryPredictions'[i][1] = r.playerId }) = 1
                        /\ e[1].factors.temperature =
                               IF supplied THEN env.temperature ELSE r.temperature
                        /\ e[1].factors.humidity =
                               IF supplied THEN env.humidity ELSE r.humidity
                        /\ e[1].injury_risk = data.body.injury_risk
                        /\ \A k \in PlayerIds \ {r.playerId} :
                               Entry(injuryPredictions', k) = Entry(injuryPredictions, k)
      ]_vars

\* a response without environmental factors to a call without optional
\* arguments was stored with the defaults, over an earlier entry of the player
C14_Witness ==
    /\ lastOp.op = "PredictOk"
    /\ callCount >= 2
    /\ Len(injuryPredictions) = 1
    /\ MapHas(injuryPredictions, 1)
    /\ MapGet(injuryPredictions, 1).factors.temperature = 72
    /\ MapGet(injuryPredictions, 1).factors.humidity = 50

\* how many requests of a bag go to one endpoint
CountTo(bag, ep) == SumCopies({ r \in BagToSet(bag) : r.ep = ep }, bag)

\* C15: fetchPlayers issues the fallback /players request only in the step in
\* which its /players/summary request failed, one fallback for one failed
\* summary request, which is then no longer outstanding; a successful summary
\* response, empty or not, and either outcome of the fallback issue no request,
\* so a call issues at most two requests, one after the other. A call of
\* fetchPlayers starts with one summary request; a call of fetchTeams,
\* predictInjury, batchPredictAll, fetchPlayerInfo or getTeamById issues at
\* most one request, and their completions none.
C15_RequestsPerCall ==
    [][/\ CountTo(inflight', "/players") > CountTo(inflight, "/players") =>
            lastOp'.op = "SummaryFail"
       /\ lastOp'.op = "SummaryFail" =>
            /\ CountTo(inflight', "/players") = CountTo(inflight, "/players") + 1
            /\ CountTo(inflight', "/players/summary") =
                   CountTo(inflight, "/players/summary") - 1
            /\ BagCardinality(inflight') = BagCardinality(inflight)
       /\ lastOp'.op \in {"SummaryOk", "BasicOk", "BasicFail", "TeamsOk", "TeamsFail",
                          "PredictOk", "PredictFail", "InfoOk", "InfoFail",
                          "BulkOk", "BulkFail"} =>
            BagCardinality(inflight') = BagCardinality(inflight) - 1
       /\ lastOp'.op = "CallFetchPlayers" =>
            /\ CountTo(inflight', "/players/summary") =
                   CountTo(inflight, "/players/summary") + 1
            /\ BagCardinality(inflight') = BagCardinality(inflight) + 1
       /\ lastOp'.op \in {"CallFetchTeams", "CallPredictInjury", "CallFetchPlayerInfo",
                          "CallGetTeamById", "CallBatchPredictAll",
                          "DashboardPrefetch", "AnalyticsEffect"} =>
            BagCardinality(inflight') - BagCardinality(inflight) \in {0, 1}
      ]_vars

\* the summary request succeeded with an empty list: no request is in flight
C15_Witness ==
    /\ lastOp.op = "SummaryOk"
    /\ players = <<>>
    /\ callCount = 1
    /\ inflight = EmptyBag

\* C16: fetchPlayers sets loading to TRUE only when the player collection is
\* empty at the time of the call: a call made with a non-empty collection
\* leaves loading as it is, and no completion of fetchPlayers sets it to TRUE.
C16_LoadingOnlyWhenEmpty ==
    [][/\ lastOp'.op = "CallFetchPlayers" =>
            loading' = (IF Len(players) = 0 THEN TRUE ELSE loading)
       /\ lastOp'.op \in {"SummaryOk", "BasicOk", "BasicFail"} => ~loading'
       /\ lastOp'.op = "SummaryFail" => loading' = loading
       /\ lastOp'.op = "DashboardMount" /\ Len(players) > 0 /\ teamsFetching =>
            loading' = loading
      ]_vars

\* a refresh was started with players in the collection: loading is FALSE
C16_Witness ==
    /\ lastOp.op = "CallFetchPlayers" /\ lastOp.issued = 1
    /\ Len(players) > 0
    /\ NumInFlightTo("/players/summary") = 1
    /\ ~loading

\* the steps of the store's own operations
StoreOps ==
    {"CallFetchPlayers", "CallFetchTeams", "CallPredictInjury", "CallFetchPlayerInfo",
     "CallGetTeamById", "CallBatchPredictAll", "DashboardMount", "DashboardPrefetch",
     "AnalyticsEffect", "SummaryOk", "SummaryFail", "BasicOk", "BasicFail",
     "TeamsOk", "TeamsFail", "PredictOk", "PredictFail", "InfoOk", "InfoFail",
     "BulkOk", "BulkFail"}

\* C17: presentation components never mutate cached data directly: every step
\* that changes the player collection, the team collection or the prediction
\* mapping is a step of one of the store's own operations (fetchPlayers,
\* fetchTeams, predictInjury, batchPredictAll, fetchPlayerInfo).
C17_OnlyStoreMutates ==
    [][(players' # players \/ teams' # teams
            \/ injuryPredictions' # injuryPredictions)
          => lastOp'.op \in StoreOps]_vars

\* C18: each in-flight guard is set exactly while the request of its operation
\* is outstanding: teamsFetching iff a /teams request is in flight,
\* predictionsBatching iff a bulk prediction request is in flight, and
\* fetchingInfo is the set of the ids of the info requests of fetchPlayerInfo in
\* flight; and a guard is cleared only by a step that resolves that request, so
\* that it stays set for as long as the request does not resolve.
C18_GuardIffInFlight ==
    /\ [](/\ teamsFetching <=> NumInFlightTo("/teams") > 0
          /\ predictionsBatching <=> NumInFlightTo(BulkEp) > 0
          /\ fetchingInfo = { r.playerId : r \in InFlightTo("/player/info") })
    /\ [][/\ teamsFetching /\ ~teamsFetching' =>
                /\ lastOp'.op \in {"TeamsOk", "TeamsFail"}
                /\ CountTo(inflight', "/teams") < CountTo(inflight, "/teams")
          /\ predictionsBatching /\ ~predictionsBatching' =>
                /\ lastOp'.op \in {"BulkOk", "BulkFail"}
                /\ CountTo(inflight', BulkEp) < CountTo(inflight, BulkEp)
          /\ fetchingInfo \ fetchingInfo' # {} =>
                /\ lastOp'.op \in {"InfoOk", "InfoFail"}
                /\ CountTo(inflight', "/player/info") < CountTo(inflight, "/player/info")
         ]_vars

\* a bulk request and the info request of player 1 are outstanding, no teams
\* request is
C18_Witness ==
    /\ predictionsBatching
    /\ fetchingInfo = {1}
    /\ ~teamsFetching
    /\ NumInFlightTo(BulkEp) = 1
    /\ NumInFlightTo("/player/info") = 1
    /\ NumInFlightTo("/teams") = 0

C20_ReplaceOrUpsert ==
    [][/\ lastOp'.op = "SummaryOk" =>
            \A r \in InFlightTo("/players/summary"), data \in PlayerPayloads :
                SummaryOkStep(r, data) => players' = data
       /\ lastOp'.op = "BasicOk" =>
            \A r \in InFlightTo("/players"), data \in PlayerPayloads :
                BasicOkStep(r, data) => players' = data
       /\ lastOp'.op = "TeamsOk" =>
            \A r \in InFlightTo("/teams"), data \in TeamPayloads :
                TeamsOkStep(r, data) => teams' = data
       /\ lastOp'.op = "PredictOk" =>
            \A r \in InFlightTo("/predict_injury"), data \in PredictPayloads :
                PredictOkStep(r, data) =>
                    \A k \in PlayerIds :
                        /\ MapHas(injuryPredictions, k) => MapHas(injuryPredictions', k)
                        /\ k # r.playerId =>
                               Entry(injuryPredictions', k) = Entry(injuryPredictions, k)
       /\ lastOp'.op = "BulkOk" =>
            \A r \in InFlightTo(BulkEp), data \in BulkPayloads :
                data.kind = "object" /\ BulkOkStep(r, data) =>
                    \A k \in PlayerIds :
                        /\ MapHas(injuryPredictions, k) => MapHas(injuryPredictions', k)
                        /\ BulkWrite(data.body, k) = <<>> =>
                               Entry(injuryPredictions', k) = Entry(injuryPredictions, k)
       /\ lastOp'.op = "InfoOk" =>
            /\ Len(players') = Len(players)
            /\ \A i \in 1..Len(players) :
                   /\ players'[i].id = players[i].id
                   /\ DOMAIN players[i] \subseteq DOMAIN players'[i]
            /\ \A r \in InFlightTo("/player/info"), data \in InfoPayloads :
                   InfoOkStep(r, data) =>
                       \A i \in 1..Len(players) :
                           players[i].id # r.playerId => players'[i] = players[i]
       /\ lastOp'.op \in {"PredictOk", "BulkOk"} => players' = players
      ]_vars

\* the collection [player 1], of which a bulk request in flight carries the
\* ids, was replaced by an empty summary response: nothing of it is left
C20_Witness ==
    /\ lastOp.op = "SummaryOk"
    /\ players = <<>>
    /\ \E r \in InFlightTo(BulkEp) : r.ids = <<1>>

\* C21: getTeamById(id) causes a /teams request if and only if, when it is
\* called, id is not in the team collection and teamsFetching is FALSE, whether
\* or not a team load has completed before; it then returns undefined. In every
\* other case (a hit, or a miss while a load is in flight) it issues no request
\* and changes no state.
C21_LookupTriggersLoad ==
    [][lastOp'.op = "CallGetTeamById" =>
         \A teamId \in TeamIds :
             CallGetTeamByIdStep(teamId) =>
                 IF ~Found(teams, teamId) /\ ~teamsFetching
                 THEN /\ inflight' = inflight (+) SetToBag({[ep |-> "/teams"]})
                      /\ teamsFetching'
                      /\ getTeamByIdResult(Cur, teamId) = <<>>
                      /\ UNCHANGED <<players, teams, injuryPredictions, fetchingInfo,
                                     predictionsBatching>>
                 ELSE UNCHANGED <<storeVars, inflight, callCount, rejected>>
      ]_vars

\* a lookup missed after a team load had completed, and started another load
C21_Witness ==
    /\ lastOp.op = "CallGetTeamById" /\ lastOp.issued = 1
    /\ Len(teams) > 0
    /\ NumInFlightTo("/teams") = 1

\* C22: a failed operation leaves the cached data it targets unchanged: a
\* failed fetchTeams leaves teams as it was, a failed predictInjury or
\* batchPredictAll (also one that fails on a null body) leaves injuryPredictions
\* as it was, and a failed fetchPlayerInfo leaves players as it was; of the
\* store only error, loading and the operation's own guard change.
C22_FailureKeepsData ==
    [][/\ lastOp'.op = "TeamsFail" =>
            UNCHANGED <<players, teams, injuryPredictions, fetchingInfo,
                        predictionsBatching>>
       /\ lastOp'.op = "PredictFail" =>
            UNCHANGED <<players, teams, injuryPredictions, loading, fetchingInfo,
                        teamsFetching, predictionsBatching>>
       /\ lastOp'.op = "BulkFail" =>
            UNCHANGED <<players, teams, injuryPredictions, loading, fetchingInfo,
                        teamsFetching>>
       /\ lastOp'.op = "InfoFail" =>
            UNCHANGED <<players, teams, injuryPredictions, loading, teamsFetching,
                        predictionsBatching>>
       /\ lastOp'.op = "PredictOk" =>
            \A r \in InFlightTo("/predict_injury") :
                PredictOkStep(r, [kind |-> "null"]) =>
                    UNCHANGED <<players, teams, injuryPredictions, loading,
                                fetchingInfo, teamsFetching, predictionsBatching>>
       /\ lastOp'.op = "BulkOk" =>
            \A r \in InFlightTo(BulkEp) :
                BulkOkStep(r, [kind |-> "null"]) =>
                    UNCHANGED <<players, teams, injuryPredictions, loading,
                                fetchingInfo, teamsFetching>>
      ]_vars

\* a team load failed and the teams loaded before are still there
C22_Witness ==
    /\ lastOp.op = "TeamsFail"
    /\ Len(teams) > 0
    /\ error # <<>>

\* C23: starting fetchTeams, directly or through a getTeamById miss, and
\* starting fetchPlayers with an empty player collection, sets error to null
\* before the request is issued, whatever operation recorded it and although
\* nothing has succeeded; a suppressed fetchTeams and a fetchPlayers with a
\* non-empty collection leave error as it is.
C23_StartResetsError ==
    [][/\ lastOp'.op = "CallFetchTeams" =>
            IF teamsFetching THEN error' = error
            ELSE error' = <<>> /\ CountTo(inflight', "/teams") = 1
       /\ lastOp'.op = "CallGetTeamById" =>
            IF lastOp'.issued = 1 THEN error' = <<>> ELSE error' = error
       /\ lastOp'.op = "CallFetchPlayers" =>
            IF Len(players) = 0 THEN error' = <<>> ELSE error' = error
       /\ lastOp'.op = "DashboardMount" =>
            IF Len(players) = 0 \/ ~teamsFetching THEN error' = <<>> ELSE error' = error
      ]_vars

\* a team load started through a getTeamById miss erased the error that an
\* earlier operation had recorded, and no data has been loaded
C23_Witness ==
    /\ lastOp.op = "CallGetTeamById" /\ lastOp.issued = 1
    /\ lastOp.erased
    /\ error = <<>>
    /\ players = <<>> /\ teams = <<>> /\ injuryPredictions = <<>>

\* C24: loading is one flag shared by fetchPlayers and fetchTeams, and every
\* completion of either (success or final failure) sets it to false whatever
\* else is in flight; so after fetchTeams completes loading is false while the
\* first fetchPlayers request is still in flight and players is still empty.
C24_CompletionClearsLoading ==
    [][/\ lastOp'.op \in {"TeamsOk", "TeamsFail", "SummaryOk", "BasicOk", "BasicFail"}
           => loading' = FALSE
       /\ lastOp'.op \in {"TeamsOk", "TeamsFail"} /\ players = <<>>
           /\ CountTo(inflight, "/players/summary") > 0
           => /\ loading' = FALSE
              /\ players' = <<>>
              /\ CountTo(inflight', "/players/summary") > 0]_vars

\* the two loads were started together, fetchTeams has completed, and loading is
\* false with the first player request in flight and no players
C24_Witness ==
    /\ lastOp.op = "TeamsOk"
    /\ callCount = 2
    /\ ~loading
    /\ players = <<>>
    /\ NumInFlightTo("/players/summary") = 1

\* C25: whenever no /players/summary, /players or /teams request is in flight,
\* loading is false: under any interleaving the flag does not stay true once
\* every player and team request has resolved.
C25_LoadingNeedsRequest ==
    (/\ NumInFlightTo("/players/summary") = 0
     /\ NumInFlightTo("/players") = 0
     /\ NumInFlightTo("/teams") = 0)
    => ~loading

\* overlapping player and team loads have all resolved, the last one by the
\* failure of the fallback request, and other requests are still in flight
C25_Witness ==
    /\ lastOp.op = "BasicFail"
    /\ callCount = MaxCalls
    /\ NumInFlightTo("/players/summary") = 0
    /\ NumInFlightTo("/players") = 0
    /\ NumInFlightTo("/teams") = 0
    /\ BagCardinality(inflight) > 0
    /\ teams # <<>>
    /\ ~loading

\* C26: fetchPlayers has no in-flight guard: a call issues its own
\* /players/summary request however many player requests are in flight, and each
\* successful completion replaces players by its own payload, so the collection
\* finally holds the payload of the request that completed last, also when that
\* request belongs to a call started before another one.
C26_LastCompletionWins ==
    [][/\ lastOp'.op = "CallFetchPlayers"
           => CountTo(inflight', "/players/summary") =
                  CountTo(inflight, "/players/summary") + 1
       /\ lastOp'.op = "SummaryOk"
           => \A r \in InFlightTo("/players/summary"), data \in PlayerPayloads :
                  SummaryOkStep(r, data) => players' = data
       /\ lastOp'.op = "BasicOk"
           => \A r \in InFlightTo("/players"), data \in PlayerPayloads :
                  BasicOkStep(r, data) => players' = data]_vars

\* two calls overlapped, the one started last has completed, and the request of
\* the one started first completed after it: players holds its payload
C26_Witness ==
    /\ lastOp.op = "SummaryOk"
    /\ lastOp.stale
    /\ players = <<P1>>
    /\ NumInFlightTo("/players/summary") = 0
    /\ NumInFlightTo("/players") = 0

\* C27: a successful fetchPlayerInfo merges its response into the collection as
\* it is when the response arrives, not as the call saw it: after fetchPlayers
\* replaced the collection the merge goes into the new record of that id, and
\* when no record has that id the collection and the error slot are left as they
\* are, nothing is thrown, and the id still leaves fetchingInfo.
C27_EnrichAtArrival ==
    [][lastOp'.op = "InfoOk" =>
         \A r \in InFlightTo("/player/info"), data \in InfoPayloads :
           InfoOkStep(r, data)
           => /\ players' = [i \in 1..Len(players) |->
                                IF players[i].id = r.playerId
                                THEN Spread(players[i], data)
                                ELSE players[i]]
              /\ fetchingInfo' = fetchingInfo \ {r.playerId}
              /\ error' = error
              /\ rejected' = rejected
              /\ ~Found(players, r.playerId) => players' = players]_vars

\* the collection was replaced by [P1] while the request for player 2 was in
\* flight: its response arrived, was applied to no record, and left no error
C27_Witness ==
    /\ lastOp.op = "InfoOk"
    /\ lastOp.drifted
    /\ players = <<P1>>
    /\ error = <<>>
    /\ ~rejected
    /\ fetchingInfo = {}

\* C28: no step removes a key from injuryPredictions: the key set only grows;
\* a fetchPlayers completion that replaces players leaves the mapping as it is,
\* and batchPredictAll stores an entry for every id of its response, so the
\* mapping may hold predictions for ids that no player of the collection has.
C28_PredictionsOnlyGrow ==
    [][/\ \A k \in PlayerIds :
            MapHas(injuryPredictions, k) => MapHas(injuryPredictions', k)
       /\ Len(injuryPredictions') >= Len(injuryPredictions)
       /\ lastOp'.op \in {"SummaryOk", "BasicOk"}
            => injuryPredictions' = injuryPredictions
       /\ lastOp'.op = "BulkOk"
            => \A r \in InFlightTo(BulkEp), data \in BulkPayloads :
                 (BulkOkStep(r, data) /\ data.kind = "object")
                 => \A pred \in { data.body[k] : k \in DOMAIN data.body } :
                        MapHas(injuryPredictions', pred.player_id)]_vars

\* players is [P1] and the one batchPredictAll made so far has stored a
\* prediction for player 2
C28_Witness ==
    /\ lastOp.op = "BulkOk"
    /\ callCount = 2
    /\ players = <<P1>>
    /\ MapHas(injuryPredictions, 2)
    /\ ~Found(players, 2)

\* C29: every entry of injuryPredictions is stored under the id it describes:
\* the entry under key k has player_id = k.
C29_KeyedByOwnId ==
    \A i \in 1..Len(injuryPredictions) :
        injuryPredictions[i][2].player_id = injuryPredictions[i][1]

\* C30: every entry of injuryPredictions has the InjuryPrediction shape:
\* player_id, injury_risk, risk_level and a factors record with temperature,
\* humidity and timestamp, whichever operation wrote it.
C30_NormalizedShape ==
    \A i \in 1..Len(injuryPredictions) :
        LET e == injuryPredictions[i][2]
        IN  /\ DOMAIN e = {"player_id", "injury_risk", "risk_level", "factors"}
            /\ DOMAIN e.factors = {"temperature", "humidity", "timestamp"}

====
